---- MODULE Spec2Model ----
(***************************************************************************)
(* A model of pysph's OpenCL support code:                                 *)
(*   src/pysph/base/opencl.py          process-wide context/queue handles, *)
(*                                     DeviceArray, DeviceHelper           *)
(*   src/pysph/base/gpu_nnps_helper.py GPUNNPSHelper (the kernel cache)    *)
(* The specifications share the module's variables, one or more per        *)
(* component:                                                              *)
(*   SpecGlob    get_context, set_context, get_queue, set_queue            *)
(*   SpecCache   GPUNNPSHelper.get_kernel                                  *)
(*   SpecArray   DeviceArray (SpecArrayNeg: also with negative sizes;      *)
(*               SpecCopy: a buffer and its copy side by side)             *)
(*   SpecHelper  DeviceHelper: construction, add_prop, resize              *)
(*               (SpecManage: also remove_prop)                            *)
(*   SpecSync    DeviceHelper: construction, add_prop, push, pull, max     *)
(***************************************************************************)
EXTENDS Integers, Sequences, FiniteSets, TLC

VARIABLES
    g_ctx,          \* opencl._ctx: "None" or a context object
    g_queue,        \* opencl._queue: NoQueue or a queue object [q, ctx]
    glast,          \* the last call on the process-wide handles and a log
    kwargsOrdered,  \* whether **kwargs keeps the call's keyword order
    cache,          \* GPUNNPSHelper.cache: key -> kernel object
    ncompiled,      \* number of ElementwiseKernel objects built so far
    ncalls,         \* number of get_kernel calls made so far
    returned,       \* history: what each get_kernel call was given and returned
    klast,          \* the last get_kernel call and its outcome
    heap,           \* device memory: handle -> [dtype, cells] of a cl.array
    bufs,           \* the DeviceArray objects: slot -> fields
    alast,          \* the last DeviceArray operation and its outcome
    use_double,     \* get_config().use_double
    pa,             \* the host particle array: properties and constants
    dh,             \* the DeviceHelper object
    hlast           \* the last DeviceHelper operation and its outcome

globVars == <<g_ctx, g_queue, glast>>
cacheVars == <<kwargsOrdered, cache, ncompiled, ncalls, returned, klast>>
arrVars == <<bufs, alast>>
helperVars == <<use_double, pa, dh, hlast>>
vars == <<globVars, cacheVars, heap, arrVars, helperVars>>

(***************************************************************************)
(* Bounds of the model.                                                    *)
(***************************************************************************)
MaxCalls == 3
\* Largest size passed to DeviceArray(), reserve and resize.
MaxSize == 3
\* Largest size passed to the DeviceArray operations where a buffer and its
\* copy are both kept.
MaxCopy == 1
\* Largest length of a host array.
MaxLen == 1
\* Largest size passed to DeviceHelper.resize.
MaxNew == 3
\* Largest length of DeviceHelper._props (add_prop appends without limit).
MaxProps == 2

(***************************************************************************)
(* Program constants.                                                      *)
(***************************************************************************)
\* The allocation DeviceArray.__init__ makes for n = 0.
DefaultMin == 16

(***************************************************************************)
(* Process-wide handles (opencl.py 10-35).                                 *)
(***************************************************************************)
None == "None"
\* None, where a queue object is expected
NoQueue == [q |-> "None", ctx |-> "None"]

DefaultCtx == "default_ctx"
UserCtx == "user_ctx"

DefaultQueue(ctx) == [q |-> "default_queue", ctx |-> ctx]

\* get_context(): the value of _ctx after the call (which it also returns).
get_context(ctx) == IF ctx = None THEN DefaultCtx ELSE ctx

\* get_queue(): the values of <<_ctx, _queue>> after the call; the second is
\* the queue it returns.
get_queue(ctx, queue) ==
    IF queue = NoQueue
    THEN <<get_context(ctx), DefaultQueue(get_context(ctx))>>
    ELSE <<ctx, queue>>

\* The contexts and queues a caller may install: contexts of its own, and
\* queues of its own made on one of those or on the context in use.
UserCtxs == {UserCtx, "user_ctx2"}
UserQueue(ctx) == [q |-> "user_queue", ctx |-> ctx]

\* What glast records: the last call and what it returned (get_context,
\* get_queue), the handle most recently passed to set_context and to
\* set_queue, how many default contexts and queues were created, and for
\* each handle which call came first, a set or a use ("none": neither yet).
GLogInit ==
    [op |-> "none", ctx_ret |-> None, queue_ret |-> NoQueue,
     ctx_set |-> None, queue_set |-> NoQueue,
     ctx_made |-> 0, queue_made |-> 0,
     ctx_first |-> "none", queue_first |-> "none"]

First(was, now) == IF was = "none" THEN now ELSE was

\* The log after get_context() with _ctx = ctx.
get_context_log(gl, ctx) ==
    [gl EXCEPT !.op = "get_context",
               !.ctx_ret = get_context(ctx),
               !.ctx_made = IF ctx = None THEN @ + 1 ELSE @,
               !.ctx_first = First(@, "use")]

\* The log after get_queue() with _ctx = ctx and _queue = queue: the context
\* is used only when the queue has to be created.
get_queue_log(gl, ctx, queue) ==
    LET g == IF queue = NoQueue THEN get_context_log(gl, ctx) ELSE gl IN
    [g EXCEPT !.op = "get_queue",
              !.queue_ret = get_queue(ctx, queue)[2],
              !.queue_made = IF queue = NoQueue THEN @ + 1 ELSE @,
              !.queue_first = First(@, "use")]

\* set_context(ctx)
set_context_log(gl, ctx) ==
    [gl EXCEPT !.op = "set_context", !.ctx_set = ctx,
               !.ctx_first = First(@, "set")]

\* set_queue(q)
set_queue_log(gl, q) ==
    [gl EXCEPT !.op = "set_queue", !.queue_set = q,
               !.queue_first = First(@, "set")]

InitGlob ==
    /\ g_ctx = None
    /\ g_queue = NoQueue
    /\ glast = GLogInit

\* The parts of the state that a specification of another component leaves
\* alone: no GPUNNPSHelper, no DeviceHelper.
NoCache ==
    /\ kwargsOrdered = TRUE
    /\ cache = <<>>
    /\ ncompiled = 0
    /\ ncalls = 0
    /\ returned = {}
    /\ klast = [name |-> "", kw |-> <<>>, out |-> "none", knl |-> 0,
               after |-> "none"]

NoHelper ==
    /\ use_double = FALSE
    /\ pa = [properties |-> <<>>, constants |-> <<>>]
    /\ dh = [state |-> "none"]
    /\ hlast = [op |-> "none"]

\* The rest of the state, which the calls on the handles leave alone.
restVars == <<cacheVars, heap, bufs, alast, use_double, pa, dh, hlast>>

GetContext ==
    /\ g_ctx' = get_context(g_ctx)
    /\ glast' = get_context_log(glast, g_ctx)
    /\ UNCHANGED <<g_queue, restVars>>

SetContext(ctx) ==
    /\ g_ctx' = ctx
    /\ glast' = set_context_log(glast, ctx)
    /\ UNCHANGED <<g_queue, restVars>>

GetQueue ==
    /\ g_ctx' = get_queue(g_ctx, g_queue)[1]
    /\ g_queue' = get_queue(g_ctx, g_queue)[2]
    /\ glast' = get_queue_log(glast, g_ctx, g_queue)
    /\ UNCHANGED restVars

SetQueue(q) ==
    /\ g_queue' = q
    /\ glast' = set_queue_log(glast, q)
    /\ UNCHANGED <<g_ctx, restVars>>

(***************************************************************************)
(* Device memory and DeviceArray (opencl.py 38-81).                        *)
(***************************************************************************)
Vals == {0, 1}
Dtypes == {"float32", "int32"}
Slots == {"b", "c"}

Min(a, b) == IF a <= b THEN a ELSE b
Max(a, b) == IF a >= b THEN a ELSE b

\* The number of elements of ary[:stop] for an array of n elements.
SliceLen(n, stop) == IF stop < 0 THEN Max(n + stop, 0) ELSE Min(stop, n)

\* A handle for a new allocation: one that no live array uses.
NewHandle(hp) ==
    CHOOSE h \in 1..(Cardinality(DOMAIN hp) + 1) :
        h \notin DOMAIN hp /\ \A k \in 1..(h - 1) : k \in DOMAIN hp

\* cl.array.empty(queue, n, dtype): n elements of whatever the memory held;
\* the model lets an allocation hold any one value g of Vals throughout.
empty(n, dtype, g) == [dtype |-> dtype, cells |-> [i \in 1..n |-> g]]

Put(hp, h, ary) == [k \in DOMAIN hp \cup {h} |-> IF k = h THEN ary ELSE hp[k]]

\* The handles the arrays of bs refer to, in a fixed order: per slot, the
\* storage and then the view's storage.
SlotSeq == <<"b", "c">>
Refs(bs) ==
    LET RECURSIVE Go(_)
        Go(i) == IF i > Len(SlotSeq) THEN <<>>
                 ELSE IF SlotSeq[i] \in DOMAIN bs
                      THEN <<bs[SlotSeq[i]]._data, bs[SlotSeq[i]].array.h>>
                               \o Go(i + 1)
                      ELSE Go(i + 1)
    IN Go(1)

\* Handles are opaque: a state is kept with its handles numbered in the order
\* of Refs, so that two states alike up to the handles' names are one state.
Rank(refs, h) ==
    LET first == CHOOSE i \in 1..Len(refs) :
                    refs[i] = h /\ \A j \in 1..(i - 1) : refs[j] # h
    IN Cardinality({refs[j] : j \in 1..first})

\* Memory no array refers to any more is released.
Collect(hp, bs) ==
    LET refs == Refs(bs)
        used == {refs[i] : i \in 1..Len(refs)} IN
    [n \in 1..Cardinality(used) |->
        hp[CHOOSE h \in used : Rank(refs, h) = n]]

Renumber(hp, bs) ==
    LET refs == Refs(bs) IN
    [s \in DOMAIN bs |->
        [bs[s] EXCEPT !._data = Rank(refs, bs[s]._data),
                      !.array.h = Rank(refs, bs[s].array.h)]]

\* The elements seen through a view [h, n]: the first n of the storage h.
ViewCells(hp, view) == SubSeq(hp[view.h].cells, 1, view.n)

\* self.array = self._data[:self.length]
update_array_ref(st) ==
    [st EXCEPT !.buf.array =
        [h |-> st.buf._data,
         n |-> SliceLen(Len(st.heap[st.buf._data].cells), st.buf.length)]]

\* set_data(data), data being the storage with handle h
set_data(st, h) ==
    update_array_ref(
        [st EXCEPT !.buf._data = h,
                   !.buf.length = Len(st.heap[h].cells),
                   !.buf.alloc = Len(st.heap[h].cells),
                   !.buf.dtype = st.heap[h].dtype])

\* A reserve that allocates and does not copy the old elements.
reserve_nocopy(st, size, g) ==
    IF size > st.buf.alloc
    THEN LET h == NewHandle(st.heap) IN
         update_array_ref(
            [heap |-> Put(st.heap, h, empty(size, st.buf.dtype, g)),
             buf |-> [st.buf EXCEPT !._data = h, !.alloc = size]])
    ELSE st

\* A reserve that replaces the storage and leaves the view on the old one.
reserve_stale(st, size, g) ==
    IF size > st.buf.alloc
    THEN LET h == NewHandle(st.heap)
             old == st.heap[st.buf._data].cells
             new_data == [dtype |-> st.buf.dtype,
                          cells |-> [i \in 1..size |->
                                IF i <= st.buf.alloc THEN old[i] ELSE g]] IN
         [heap |-> Put(st.heap, h, new_data),
          buf |-> [st.buf EXCEPT !._data = h, !.alloc = size]]
    ELSE st

\* reserve(size)
reserve(st, size, g) ==
    IF size > st.buf.alloc
    THEN LET h == NewHandle(st.heap)
             old == st.heap[st.buf._data].cells
             new_data == [dtype |-> st.buf.dtype,
                          cells |-> [i \in 1..size |->
                                IF i <= st.buf.alloc THEN old[i] ELSE g]] IN
         update_array_ref(
            [heap |-> Put(st.heap, h, new_data),
             buf |-> [st.buf EXCEPT !._data = h, !.alloc = size]])
    ELSE st

\* A resize that does not reserve first.
resize_noreserve(st, size, g) ==
    update_array_ref([st EXCEPT !.buf.length = size])

\* resize(size)
resize(st, size, g) ==
    update_array_ref([reserve(st, size, g) EXCEPT !.buf.length = size])

\* The allocation size DeviceArray.__init__ always rounds up to 16.
InitAllocMin(n) == Max(n, DefaultMin)

\* DeviceArray.__init__: the number of elements allocated for length n.
InitAlloc(n) == IF n = 0 THEN DefaultMin ELSE n

\* DeviceArray(dtype, n) with the process handles <<ctx, queue>>
DeviceArray(hp, glob, dtype, n, g) ==
    LET h == NewHandle(hp)
        st0 == [heap |-> Put(hp, h, empty(InitAlloc(n), dtype, g)),
                buf |-> [queue |-> get_queue(glob[1], glob[2])[2],
                         _data |-> h, length |-> 0, alloc |-> 0,
                         dtype |-> dtype, array |-> [h |-> h, n |-> 0]]]
        st1 == set_data(st0, h) IN
    update_array_ref([st1 EXCEPT !.buf.length = n])

\* self.array.copy(): new storage holding the elements of the view
view_copy(hp, view) ==
    [dtype |-> hp[view.h].dtype, cells |-> ViewCells(hp, view)]

\* A copy that wraps the storage of the original instead of copying it.
copy_shared(st, glob, g) ==
    set_data([heap |-> st.heap,
              buf |-> DeviceArray(st.heap, glob, st.buf.dtype, 0, g).buf],
             st.buf.array.h)

\* copy(): the state holding the new DeviceArray. What the storage that
\* __init__ allocates holds (g) is never seen: set_data drops that storage.
copy(st, glob, g) ==
    LET arr_copy == DeviceArray(st.heap, glob, st.buf.dtype, 0, g)
        \* the storage __init__ allocated is dropped by set_data
        h == arr_copy.buf._data IN
    set_data([heap |-> Put(st.heap, h, view_copy(st.heap, st.buf.array)),
              buf |-> arr_copy.buf], h)

\* fill(value): self.array.fill(value) writes through the view
fill(st, value) ==
    LET v == st.buf.array IN
    [st EXCEPT !.heap[v.h].cells =
        [i \in 1..Len(st.heap[v.h].cells) |->
            IF i <= v.n THEN value ELSE st.heap[v.h].cells[i]]]

St(s) == [heap |-> heap, buf |-> bufs[s]]

\* What alast records: the operation, the slot it acted on, the size it was
\* given, for a resize that directly follows a resize of the same slot the
\* size of that one (else -1), and whether the storage was replaced. Every
\* operation of DeviceArray returns normally: none of them raises.
ALast(op, s, size, after, realloc) ==
    [op |-> op, slot |-> s, size |-> size, after |-> after,
     realloc |-> realloc, out |-> "returned"]
Glob == <<g_ctx, g_queue>>

\* The state after slot s is bound to the buffer of st.
Bind(s, st) ==
    LET bs == [k \in DOMAIN bufs \cup {s} |-> IF k = s THEN st.buf ELSE bufs[k]]
    IN  /\ bufs' = Renumber(st.heap, bs)
        /\ heap' = Collect(st.heap, bs)

Create(s, dtype, n, g) ==
    /\ s \notin DOMAIN bufs
    /\ Bind(s, DeviceArray(heap, Glob, dtype, n, g))
    /\ g_ctx' = get_queue(g_ctx, g_queue)[1]
    /\ g_queue' = get_queue(g_ctx, g_queue)[2]
    /\ glast' = get_queue_log(glast, g_ctx, g_queue)
    /\ alast' = ALast("create", s, n, -1, FALSE)
    /\ UNCHANGED <<cacheVars, helperVars>>

Reserve(s, size, g) ==
    /\ s \in DOMAIN bufs
    /\ Bind(s, reserve(St(s), size, g))
    /\ alast' = ALast("reserve", s, size, -1,
                       reserve(St(s), size, g).buf._data # bufs[s]._data)
    /\ UNCHANGED <<globVars, cacheVars, helperVars>>

Resize(s, size, g) ==
    /\ s \in DOMAIN bufs
    /\ Bind(s, resize(St(s), size, g))
    /\ alast' = ALast("resize", s, size,
                       IF alast.op = "resize" /\ alast.slot = s
                       THEN alast.size ELSE -1,
                       resize(St(s), size, g).buf._data # bufs[s]._data)
    /\ UNCHANGED <<globVars, cacheVars, helperVars>>

Fill(s, value) ==
    /\ s \in DOMAIN bufs
    /\ Bind(s, fill(St(s), value))
    /\ alast' = ALast("fill", s, 0, -1, FALSE)
    /\ UNCHANGED <<globVars, cacheVars, helperVars>>

\* d = bufs[s].copy(); with d = s the name is rebound to the copy and the
\* original is dropped.
Copy(s, d, g) ==
    /\ s \in DOMAIN bufs
    /\ Bind(d, copy(St(s), Glob, g))
    /\ alast' = ALast("copy", d, 0, -1, FALSE)
    /\ UNCHANGED <<globVars, cacheVars, helperVars>>

(***************************************************************************)
(* GPUNNPSHelper: the kernel cache (gpu_nnps_helper.py).                   *)
(***************************************************************************)
\* Kernel names with <name>_args and <name>_src definitions in the template.
KnownKernels == {"foo", "bar"}
\* A name the template has no definitions for.
UnknownKernels == {"nope"}
KernelNames == KnownKernels \cup UnknownKernels

ParamKeys == {"a", "b"}
ParamVals(k) == IF k = "a" THEN {1} ELSE {2, 3}

\* The keyword arguments of a call, in the order the caller wrote them:
\* sequences of <<key, value>> with distinct keys.
KwArgs ==
    {<<>>}
    \cup {<<(<<k, v>>)>> : k \in ParamKeys, v \in {1, 2, 3}}
    \cup {<<(<<"a", v>>), <<"b", w>>>> : v \in {1, 2, 3}, w \in {1, 2, 3}}
    \cup {<<(<<"b", w>>), <<"a", v>>>> : v \in {1, 2, 3}, w \in {1, 2, 3}}

CallKwArgs ==
    {kw \in KwArgs : \A i \in 1..Len(kw) : kw[i][2] \in ParamVals(kw[i][1])}

\* The parameter set of a call: what the caller passed, whatever the order.
ParamSet(kw) == {kw[i] : i \in 1..Len(kw)}

\* Position of a key in a dict whose iteration order does not depend on the
\* insertion order (CPython before 3.6, no hash collision).
HashSlot(k) == IF k = "a" THEN 1 ELSE 2

RECURSIVE InsertItem(_, _)
InsertItem(item, s) ==
    IF s = <<>> THEN <<item>>
    ELSE IF HashSlot(item[1]) <= HashSlot(Head(s)[1]) THEN <<item>> \o s
    ELSE <<Head(s)>> \o InsertItem(item, Tail(s))

RECURSIVE SortItems(_)
SortItems(kw) ==
    IF kw = <<>> THEN <<>> ELSE InsertItem(Head(kw), SortItems(Tail(kw)))

\* kwargs.items(): in the call's order where **kwargs is ordered (PEP 468),
\* in the dict's own order otherwise.
Items(ordered, kw) == IF ordered THEN kw ELSE SortItems(kw)

\* A key that ignores the parameter values.
CacheKeyNoValues(ordered, name, kw) ==
    <<name, [i \in 1..Len(kw) |-> Items(ordered, kw)[i][1]]>>

\* data = kernel_name, tuple(kwargs.items())
CacheKey(ordered, name, kw) == <<name, Items(ordered, kw)>>

\* _get_code: get_def("<name>_args") raises for a name the template lacks.
HasTemplate(name) == name \in KnownKernels

\* A failed build that leaves an entry without a kernel under the key.
on_failure_partial(c, data) ==
    [k \in DOMAIN c \cup {data} |-> IF k = data THEN 0 ELSE c[k]]

\* The cache after _get_code or ElementwiseKernel raised: the exception leaves
\* get_kernel before self.cache[data] = knl.
on_failure(c, data) == c

\* A store that keeps the newest entry only.
store_evicting(c, data, knl) == [k \in {data} |-> knl]

\* self.cache[data] = knl
store(c, data, knl) ==
    [k \in DOMAIN c \cup {data} |-> IF k = data THEN knl ELSE c[k]]

\* What klast records: the call, its outcome, the kernel it returned (0 when
\* it raised) and, when the call directly before it had the same key, that
\* call's outcome (else "none").
KLast(name, kw, out, knl) ==
    [name |-> name, kw |-> kw, out |-> out, knl |-> knl,
     after |-> IF /\ klast.out # "none"
                  /\ CacheKey(kwargsOrdered, klast.name, klast.kw)
                        = CacheKey(kwargsOrdered, name, kw)
               THEN klast.out ELSE "none"]

\* get_kernel(kernel_name, **kwargs). buildOk: whether rendering and
\* ElementwiseKernel succeed (they are only reached on a miss).
get_kernel(name, kw, buildOk) ==
    LET data == CacheKey(kwargsOrdered, name, kw) IN
    /\ ncalls < MaxCalls
    /\ ncalls' = ncalls + 1
    /\ IF data \in DOMAIN cache
       THEN /\ returned' = returned \cup
                   {[name |-> name, kw |-> kw, knl |-> cache[data],
                     compiled |-> FALSE]}
            /\ klast' = KLast(name, kw, "hit", cache[data])
            /\ UNCHANGED <<cache, ncompiled>>
       ELSE IF HasTemplate(name) /\ buildOk
       THEN LET knl == ncompiled + 1 IN
            /\ ncompiled' = knl
            /\ cache' = store(cache, data, knl)
            /\ returned' = returned \cup
                   {[name |-> name, kw |-> kw, knl |-> knl,
                     compiled |-> TRUE]}
            /\ klast' = KLast(name, kw, "built", knl)
       ELSE /\ klast' = KLast(name, kw, "raised", 0)
            /\ cache' = on_failure(cache, data)
            /\ UNCHANGED <<ncompiled, returned>>
    /\ UNCHANGED <<kwargsOrdered, globVars, heap, arrVars, helperVars>>

GetKernel ==
    \E name \in KernelNames, kw \in CallKwArgs, buildOk \in BOOLEAN :
        get_kernel(name, kw, buildOk)

(***************************************************************************)
(* The host particle array (external): named carrays, each with its        *)
(* allocated size, its length, its C type and its values.                  *)
(***************************************************************************)
PropNames == {"x", "y"}
ConstNames == {"m"}
\* A name that is neither a property nor a constant of the particle array.
ForeignNames == {"q"}
AllNames == PropNames \cup ConstNames \cup ForeignNames
\* The order in which a dict of these names iterates.
NameSeq == <<"x", "y", "m", "q">>

CType(name) ==
    IF name = "x" THEN "double" ELSE IF name = "y" THEN "int"
    ELSE IF name = "m" THEN "float" ELSE "double"

\* The i-th value of the host array called name. A double holds values that
\* single precision cannot (the odd ones); a float holds only values it can.
HostVal(name, i) ==
    IF name = "x" THEN 9 + 2 * i ELSE IF name = "y" THEN 20 + i
    ELSE IF name = "m" THEN 28 + 2 * i ELSE 39 + 2 * i

CArray(name, alloc, length) ==
    [alloc |-> alloc, length |-> length, ctype |-> CType(name),
     vals |-> [i \in 1..length |-> HostVal(name, i)]]

\* The carrays a name may stand for when it holds n elements: allocated
\* exactly or with one element to spare.
CArrays(name, n) == {CArray(name, n + k, n) : k \in {0, 1}}

\* Functions from a subset of names to carrays of n elements: the particle
\* array keeps all its properties at one length, the number of particles.
Containers(names, n) ==
    UNION {{f \in [sub -> UNION {CArrays(k, n) : k \in sub}] :
                \A k \in sub : f[k] \in CArrays(k, n)} : sub \in SUBSET names}

\* The array passed to add_prop under a name the particle array lacks.
ForeignArray(name) == CArray(name, 1, 1)

\* astype(np.float32) of a value: the nearest value single precision holds.
Cast32(v) == v - (v % 2)

\* A _get_array that casts every array, whatever its C type.
get_array_castall(dtype, ary) ==
    [dtype |-> dtype,
     vals |-> IF dtype = "float32"
              THEN [i \in 1..Len(ary.vals) |-> Cast32(ary.vals[i])]
              ELSE ary.vals]

\* _get_array(ary) with self._dtype = dtype: the dtype and values of the result
get_array(dtype, ary) ==
    IF ary.ctype \in {"float", "double"}
    THEN [dtype |-> dtype,
          vals |-> IF dtype = "float32"
                   THEN [i \in 1..Len(ary.vals) |-> Cast32(ary.vals[i])]
                   ELSE ary.vals]
    ELSE [dtype |-> ary.ctype, vals |-> ary.vals]

Has(f, k) == k \in DOMAIN f

\* _get_prop_or_const(prop): pa.properties.get(prop, pa.constants.get(prop))
get_prop_or_const(p, prop) ==
    IF Has(p.properties, prop) THEN p.properties[prop]
    ELSE IF Has(p.constants, prop) THEN p.constants[prop]
    ELSE [ctype |-> "None"]

(***************************************************************************)
(* DeviceHelper (opencl.py 84-172). An operation maps a state              *)
(* st = [heap, dh, pa, out] to the state it leaves; out is "returned" or   *)
(* the exception that ended the operation.                                 *)
(***************************************************************************)
SeqHas(seq, x) == \E i \in 1..Len(seq) : seq[i] = x

\* list.remove(x): the list without the first x
RemoveFirst(seq, x) ==
    LET i == CHOOSE k \in 1..Len(seq) :
                seq[k] = x /\ \A j \in 1..(k - 1) : seq[j] # x
    IN SubSeq(seq, 1, i - 1) \o SubSeq(seq, i + 1, Len(seq))

Assign(f, k, v) == [j \in DOMAIN f \cup {k} |-> IF j = k THEN v ELSE f[j]]
Delete(f, k) == [j \in DOMAIN f \ {k} |-> f[j]]

\* An add_prop that registers nothing under a name the particle array lacks.
add_prop_checked(st, name, carray, g) ==
    IF Has(st.pa.properties, name) \/ Has(st.pa.constants, name)
    THEN LET np_array == get_array(st.dh._dtype, carray)
             h == NewHandle(st.heap)
             g_ary == [dtype |-> np_array.dtype,
                       cells |-> [i \in 1..carray.alloc |->
                            IF i <= carray.length THEN np_array.vals[i] ELSE g]]
         IN [st EXCEPT !.heap = Put(st.heap, h, g_ary),
                  !.dh._data = Assign(st.dh._data, name, h),
                  !.dh.keys = IF SeqHas(st.dh.keys, name) THEN st.dh.keys
                              ELSE Append(st.dh.keys, name),
                  !.dh.attr = Assign(st.dh.attr, name,
                        [h |-> h, n |-> SliceLen(carray.alloc, carray.length)]),
                  !.dh._props = IF Has(st.pa.properties, name)
                                THEN Append(st.dh._props, name)
                                ELSE st.dh._props]
    ELSE [st EXCEPT !.out = "UnknownProperty"]

\* add_prop(name, carray); g is what the part of the new storage that is not
\* written holds.
add_prop(st, name, carray, g) ==
    LET np_array == get_array(st.dh._dtype, carray)
        h == NewHandle(st.heap)
        \* g_ary = cl.array.empty(...); g_ary[:carray.length].set(np_array)
        g_ary == [dtype |-> np_array.dtype,
                  cells |-> [i \in 1..carray.alloc |->
                        IF i <= carray.length THEN np_array.vals[i] ELSE g]]
    IN [st EXCEPT !.heap = Put(st.heap, h, g_ary),
                  !.dh._data = Assign(st.dh._data, name, h),
                  !.dh.keys = IF SeqHas(st.dh.keys, name) THEN st.dh.keys
                              ELSE Append(st.dh.keys, name),
                  !.dh.attr = Assign(st.dh.attr, name,
                        [h |-> h, n |-> SliceLen(carray.alloc, carray.length)]),
                  !.dh._props = IF Has(st.pa.properties, name)
                                THEN Append(st.dh._props, name)
                                ELSE st.dh._props]

\* The names of names, in the order of NameSeq.
InOrder(names) ==
    LET RECURSIVE Go(_)
        Go(i) == IF i > Len(NameSeq) THEN <<>>
                 ELSE IF NameSeq[i] \in names THEN <<NameSeq[i]>> \o Go(i + 1)
                 ELSE Go(i + 1)
    IN Go(1)

RECURSIVE add_all(_, _, _, _)
add_all(st, names, arrays, g) ==
    IF names = <<>> THEN st
    ELSE add_all(add_prop(st, Head(names), arrays[Head(names)], g),
                 Tail(names), arrays, g)

\* if self._data: self._alloc = len(self._data['x'])
init_alloc(st) ==
    IF DOMAIN st.dh._data = {} THEN st
    ELSE IF ~Has(st.dh._data, "x") THEN [st EXCEPT !.out = "KeyError"]
    ELSE [st EXCEPT !.dh._alloc = Len(st.heap[st.dh._data["x"]].cells)]

\* DeviceHelper(particle_array)
dh_init(hp, glob, p, double, g) ==
    LET st0 == [heap |-> hp, pa |-> p, out |-> "returned",
                dh |-> [state |-> "ready",
                        _queue |-> get_queue(glob[1], glob[2])[2],
                        _dtype |-> IF double THEN "float64" ELSE "float32",
                        _data |-> <<>>, keys |-> <<>>, attr |-> <<>>,
                        _props |-> <<>>, _alloc |-> 0]]
        st1 == add_all(st0, InOrder(DOMAIN p.properties), p.properties, g)
        st2 == add_all(st1, InOrder(DOMAIN p.constants), p.constants, g)
    IN init_alloc(st2)

\* remove_prop(name)
remove_prop(st, name) ==
    LET st1 == IF SeqHas(st.dh._props, name)
               THEN [st EXCEPT !.dh._props = RemoveFirst(st.dh._props, name)]
               ELSE st
    IN IF Has(st1.dh._data, name)
       THEN [st1 EXCEPT !.dh._data = Delete(st1.dh._data, name),
                        !.dh.keys = RemoveFirst(st1.dh.keys, name),
                        !.dh.attr = Delete(st1.dh.attr, name)]
       ELSE st1

\* The first loop of resize, from the i-th managed property on.
RECURSIVE resize_storage(_, _, _, _)
resize_storage(st, new_size, g, i) ==
    IF i > Len(st.dh._props) THEN st
    ELSE LET prop == st.dh._props[i] IN
         IF ~Has(st.dh._data, prop) THEN [st EXCEPT !.out = "KeyError"]
         ELSE LET old_prop == st.heap[st.dh._data[prop]]
                  sz == Min(Len(old_prop.cells), new_size)
                  h == NewHandle(st.heap)
                  new_prop == [dtype |-> old_prop.dtype,
                               cells |-> [k \in 1..new_size |->
                                    IF k <= sz THEN old_prop.cells[k] ELSE g]]
              IN resize_storage(
                    [st EXCEPT !.heap = Put(st.heap, h, new_prop),
                               !.dh._data[prop] = h],
                    new_size, g, i + 1)

\* A second loop that goes over every registered name, constants included.
RECURSIVE resize_views_all(_, _, _)
resize_views_all(st, new_size, i) ==
    IF i > Len(st.dh.keys) THEN st
    ELSE LET prop == st.dh.keys[i] IN
         resize_views_all(
            [st EXCEPT !.dh.attr = Assign(st.dh.attr, prop,
                [h |-> st.dh._data[prop],
                 n |-> SliceLen(Len(st.heap[st.dh._data[prop]].cells),
                                new_size)])],
            new_size, i + 1)

\* The second loop of resize, from the i-th managed property on.
RECURSIVE resize_views(_, _, _)
resize_views(st, new_size, i) ==
    IF i > Len(st.dh._props) THEN st
    ELSE LET prop == st.dh._props[i] IN
         IF ~Has(st.dh._data, prop) THEN [st EXCEPT !.out = "KeyError"]
         ELSE resize_views(
                [st EXCEPT !.dh.attr = Assign(st.dh.attr, prop,
                    [h |-> st.dh._data[prop],
                     n |-> SliceLen(Len(st.heap[st.dh._data[prop]].cells),
                                    new_size)])],
                new_size, i + 1)

\* A shared size that follows every resize.
new_alloc_always(alloc, new_size) == new_size

\* The value of self._alloc after resize(new_size).
new_alloc(alloc, new_size) == IF new_size > alloc THEN new_size ELSE alloc

\* resize(new_size)
dh_resize(st, new_size, g) ==
    LET st1 == IF new_size > st.dh._alloc
               THEN resize_storage(st, new_size, g, 1)
               ELSE st
    IN IF st1.out # "returned" THEN st1
       ELSE resize_views(
                [st1 EXCEPT !.dh._alloc = new_alloc(st.dh._alloc, new_size)],
                new_size, 1)

\* args, or self._data.keys() when no name is given
Args(st, args) == IF args = <<>> THEN st.dh.keys ELSE args

\* view.set(ary): the view's elements overwritten by those of ary
view_set(st, view, vals) ==
    IF Len(vals) # view.n THEN [st EXCEPT !.out = "ValueError"]
    ELSE [st EXCEPT !.heap[view.h].cells =
            [i \in 1..Len(st.heap[view.h].cells) |->
                IF i <= view.n THEN vals[i] ELSE st.heap[view.h].cells[i]]]

\* push(*args), from the i-th name on
RECURSIVE push(_, _, _)
push(st, args, i) ==
    IF i > Len(args) \/ st.out # "returned" THEN st
    ELSE LET arg == args[i] IN
         IF ~Has(st.dh.attr, arg) THEN [st EXCEPT !.out = "AttributeError"]
         ELSE LET host == get_prop_or_const(st.pa, arg) IN
              IF host.ctype = "None"
              THEN [st EXCEPT !.out = "AttributeError"]
              ELSE push(view_set(st, st.dh.attr[arg],
                                 get_array(st.dh._dtype, host).vals),
                        args, i + 1)

\* carray.set_data(nparr): the values of nparr copied into the host array
carray_set_data(st, arg, vals) ==
    LET which == IF Has(st.pa.properties, arg) THEN "properties"
                 ELSE "constants"
        ary == st.pa[which][arg] IN
    IF Len(vals) > ary.length THEN [st EXCEPT !.out = "ValueError"]
    ELSE [st EXCEPT !.pa[which][arg].vals =
            [i \in 1..ary.length |->
                IF i <= Len(vals) THEN vals[i] ELSE ary.vals[i]]]

\* pull(*args), from the i-th name on
RECURSIVE pull(_, _, _)
pull(st, args, i) ==
    IF i > Len(args) \/ st.out # "returned" THEN st
    ELSE LET arg == args[i] IN
         IF get_prop_or_const(st.pa, arg).ctype = "None"
         THEN [st EXCEPT !.out = "AttributeError"]
         ELSE IF ~Has(st.dh.attr, arg)
         THEN [st EXCEPT !.out = "AttributeError"]
         ELSE pull(carray_set_data(st, arg, ViewCells(st.heap, st.dh.attr[arg])),
                   args, i + 1)

RECURSIVE SeqMax(_)
SeqMax(seq) ==
    IF Len(seq) = 1 THEN seq[1] ELSE Max(seq[1], SeqMax(Tail(seq)))

\* max(arg): the outcome, and the value returned (0 when it raises)
dh_max(st, arg) ==
    IF ~Has(st.dh.attr, arg) THEN [out |-> "AttributeError", ret |-> 0]
    ELSE IF st.dh.attr[arg].n = 0 THEN [out |-> "ValueError", ret |-> 0]
    ELSE [out |-> "returned",
          ret |-> SeqMax(ViewCells(st.heap, st.dh.attr[arg]))]

\* The handles the helper refers to, in a fixed order: per name, its storage
\* and then its view's storage.
HRefs(d) ==
    LET RECURSIVE Go(_)
        Go(i) == IF i > Len(NameSeq) THEN <<>>
                 ELSE (IF Has(d._data, NameSeq[i])
                       THEN <<d._data[NameSeq[i]]>> ELSE <<>>)
                      \o (IF Has(d.attr, NameSeq[i])
                          THEN <<d.attr[NameSeq[i]].h>> ELSE <<>>)
                      \o Go(i + 1)
    IN Go(1)

\* Memory nothing refers to any more is released; handles are renumbered in
\* the order of HRefs (see Rank).
HCollect(hp, d) ==
    LET refs == HRefs(d)
        used == {refs[i] : i \in 1..Len(refs)} IN
    [n \in 1..Cardinality(used) |->
        hp[CHOOSE h \in used : Rank(refs, h) = n]]

HRenumber(d) ==
    LET refs == HRefs(d) IN
    [d EXCEPT !._data = [k \in DOMAIN d._data |-> Rank(refs, d._data[k])],
              !.attr = [k \in DOMAIN d.attr |->
                            [d.attr[k] EXCEPT !.h = Rank(refs, d.attr[k].h)]]]

HSt == [heap |-> heap, dh |-> dh, pa |-> pa, out |-> "returned"]

\* The state after an operation that left st.
HBind(st) ==
    /\ dh' = HRenumber(st.dh)
    /\ heap' = HCollect(st.heap, st.dh)
    /\ pa' = st.pa

\* What hlast records: the operation, the names and the size it was given,
\* its outcome, the value it returned (max) and, for a pull that directly
\* follows a push of the same names that returned, "push" (else "none").
HLast(op, names, size, out, ret) ==
    [op |-> op, names |-> names, size |-> size, out |-> out, ret |-> ret,
     after |-> IF /\ op = "pull"
                  /\ hlast.op = "push"
                  /\ hlast.out = "returned"
                  /\ hlast.names = names
               THEN "push" ELSE "none"]

\* DeviceHelper(pa): when __init__ raises there is no helper.
HInit(g) ==
    /\ dh.state = "new"
    /\ LET st == dh_init(heap, Glob, pa, use_double, g) IN
       /\ IF st.out = "returned"
          THEN HBind(st)
          ELSE /\ dh' = [dh EXCEPT !.state = "failed"]
               /\ UNCHANGED <<heap, pa>>
       /\ hlast' = HLast("init", <<>>, 0, st.out, 0)
    /\ g_ctx' = get_queue(g_ctx, g_queue)[1]
    /\ g_queue' = get_queue(g_ctx, g_queue)[2]
    /\ glast' = get_queue_log(glast, g_ctx, g_queue)
    /\ UNCHANGED <<use_double, cacheVars, arrVars>>

\* add_prop(name, carray) with the host array of that name, or with an array
\* of the caller's for a name the particle array lacks.
HAddProp(name, g) ==
    /\ dh.state = "ready"
    /\ Len(dh._props) < MaxProps
    /\ LET carray == IF get_prop_or_const(pa, name).ctype = "None"
                     THEN ForeignArray(name)
                     ELSE get_prop_or_const(pa, name)
           st == add_prop(HSt, name, carray, g) IN
       /\ HBind(st)
       /\ hlast' = HLast("add_prop", <<name>>, 0, st.out, 0)
    /\ UNCHANGED <<use_double, globVars, cacheVars, arrVars>>

HRemoveProp(name) ==
    /\ dh.state = "ready"
    /\ LET st == remove_prop(HSt, name) IN
       /\ HBind(st)
       /\ hlast' = HLast("remove_prop", <<name>>, 0, st.out, 0)
    /\ UNCHANGED <<use_double, globVars, cacheVars, arrVars>>

HResize(new_size, g) ==
    /\ dh.state = "ready"
    /\ LET st == dh_resize(HSt, new_size, g) IN
       /\ HBind(st)
       /\ hlast' = HLast("resize", <<>>, new_size, st.out, 0)
    /\ UNCHANGED <<use_double, globVars, cacheVars, arrVars>>

HPush(args) ==
    /\ dh.state = "ready"
    /\ LET st == push(HSt, Args(HSt, args), 1) IN
       /\ HBind(st)
       /\ hlast' = HLast("push", args, 0, st.out, 0)
    /\ UNCHANGED <<use_double, globVars, cacheVars, arrVars>>

HPull(args) ==
    /\ dh.state = "ready"
    /\ LET st == pull(HSt, Args(HSt, args), 1) IN
       /\ HBind(st)
       /\ hlast' = HLast("pull", args, 0, st.out, 0)
    /\ UNCHANGED <<use_double, globVars, cacheVars, arrVars>>

HMax(name) ==
    /\ dh.state = "ready"
    /\ hlast' = HLast("max", <<name>>, 0, dh_max(HSt, name).out,
                      dh_max(HSt, name).ret)
    /\ UNCHANGED <<heap, use_double, pa, dh, globVars, cacheVars, arrVars>>


(***************************************************************************)
(* The specifications.                                                     *)
(***************************************************************************)
Sizes == 0..MaxSize
SizesNeg == (-1)..MaxSize

\* No DeviceArray exists yet.
InitArr ==
    /\ bufs = <<>>
    /\ alast = ALast("none", "", 0, -1, FALSE)

InitArray ==
    /\ InitGlob
    /\ heap = <<>>
    /\ InitArr
    /\ NoCache
    /\ NoHelper

\* What a new allocation may hold: any value, where the operation allocates.
Garbage(s, size) ==
    IF s \in DOMAIN bufs /\ size > bufs[s].alloc THEN Vals ELSE {0}

\* A buffer's state depends on its own history alone (the buffer it was
\* copied from included), so one slot, rebound to a copy now and then, reaches
\* every state a buffer can be in.
NextArray ==
    \/ \E dt \in Dtypes, n \in Sizes, g \in Vals : Create("b", dt, n, g)
    \/ \E n \in Sizes : \E g \in Garbage("b", n) : Reserve("b", n, g)
    \/ \E n \in Sizes : \E g \in Garbage("b", n) : Resize("b", n, g)
    \/ \E v \in Vals : Fill("b", v)
    \/ Copy("b", "b", 0)

\* The same operations without copy, a negative size among the sizes.
NextArrayNeg ==
    \/ \E dt \in Dtypes, n \in Sizes, g \in Vals : Create("b", dt, n, g)
    \/ \E n \in SizesNeg : \E g \in Garbage("b", n) : Reserve("b", n, g)
    \/ \E n \in SizesNeg : \E g \in Garbage("b", n) : Resize("b", n, g)
    \/ \E v \in Vals : Fill("b", v)

\* A buffer b and a copy c of it, both kept and both operated on.
CopySizes == 0..MaxCopy
NextCopy ==
    \/ \E n \in CopySizes, g \in Vals : Create("b", "float32", n, g)
    \/ \E s \in Slots, n \in CopySizes :
            \E g \in Garbage(s, n) : Reserve(s, n, g)
    \/ \E s \in Slots, n \in CopySizes :
            \E g \in Garbage(s, n) : Resize(s, n, g)
    \/ \E s \in Slots, v \in Vals : Fill(s, v)
    \/ Copy("b", "c", 0)

SpecCopy == InitArray /\ [][NextCopy]_vars

\* The calls on the process-wide handles, in any order. A caller installs a
\* context of its own, and a queue made on a context of its own or on the
\* context in use.
NextGlob ==
    \/ GetContext
    \/ \E ctx \in UserCtxs : SetContext(ctx)
    \/ GetQueue
    \/ \E ctx \in UserCtxs \cup ({g_ctx} \ {None}) : SetQueue(UserQueue(ctx))

SpecGlob == InitArray /\ [][NextGlob]_vars
SpecArray == InitArray /\ [][NextArray]_vars
SpecArrayNeg == InitArray /\ [][NextArrayNeg]_vars

\* GPUNNPSHelper.__init__: self.cache = {}
InitCache ==
    /\ InitGlob
    /\ heap = <<>>
    /\ InitArr
    /\ NoHelper
    /\ kwargsOrdered \in BOOLEAN
    /\ cache = <<>>
    /\ ncompiled = 0
    /\ ncalls = 0
    /\ returned = {}
    /\ klast = [name |-> "", kw |-> <<>>, out |-> "none", knl |-> 0,
               after |-> "none"]

NextCache == GetKernel

SpecCache == InitCache /\ [][NextCache]_vars

\* The names given to push and pull: none (all known names) or one name.
ArgLists == {<<>>} \cup {<<n>> : n \in AllNames}

\* A particle array with any of the properties and constants, and no helper
\* over it yet.
InitPa ==
    /\ InitGlob
    /\ heap = <<>>
    /\ InitArr
    /\ NoCache
    /\ \E n \in 1..MaxLen :
       \E props \in Containers(PropNames, n),
          consts \in Containers(ConstNames, 1) :
            pa = [properties |-> props, constants |-> consts]
    /\ dh = [state |-> "new", _queue |-> NoQueue, _dtype |-> "None",
             _data |-> <<>>, keys |-> <<>>, attr |-> <<>>,
             _props |-> <<>>, _alloc |-> 0]
    /\ hlast = [op |-> "none", names |-> <<>>, size |-> 0, out |-> "returned",
                ret |-> 0, after |-> "none"]

\* Single precision on the device (the configuration's default).
InitHelper == InitPa /\ use_double = FALSE

InitSync == InitPa /\ use_double \in BOOLEAN

HostNames == PropNames \cup ConstNames

\* What a new allocation may hold: any value, where the operation leaves a
\* part of a new allocation unwritten.
AddGarbage(name) ==
    IF \/ get_prop_or_const(pa, name).ctype = "None"
       \/ get_prop_or_const(pa, name).alloc = get_prop_or_const(pa, name).length
    THEN {0} ELSE Vals

ResizeGarbage(new_size) ==
    IF dh.state = "ready" /\ new_size > dh._alloc THEN Vals ELSE {0}

\* Construction, registration and resizing.
NextHelper ==
    \/ \E g \in Vals : HInit(g)
    \/ \E name \in HostNames : \E g \in AddGarbage(name) : HAddProp(name, g)
    \/ \E n \in 0..MaxNew : \E g \in ResizeGarbage(n) : HResize(n, g)

\* The same with remove_prop.
NextManage ==
    \/ \E g \in Vals : HInit(g)
    \/ \E name \in HostNames : \E g \in AddGarbage(name) : HAddProp(name, g)
    \/ \E name \in HostNames : HRemoveProp(name)
    \/ \E n \in 0..MaxNew : \E g \in ResizeGarbage(n) : HResize(n, g)

\* Construction, registration and the transfers between host and device.
NextSync ==
    \/ \E g \in Vals : HInit(g)
    \/ \E name \in AllNames : \E g \in AddGarbage(name) : HAddProp(name, g)
    \/ \E args \in ArgLists : HPush(args)
    \/ \E args \in ArgLists : HPull(args)
    \/ \E name \in AllNames : HMax(name)

SpecHelper == InitHelper /\ [][NextHelper]_vars
SpecManage == InitHelper /\ [][NextManage]_vars
SpecSync == InitSync /\ [][NextSync]_vars

(***************************************************************************)
(* C5 as stated: create(dtype, length) allocates max(length, 16) elements, *)
(* sets the logical length to length and gives a view of length elements.  *)
(***************************************************************************)
C5_CreateCapacityMax ==
    alast.op = "create" =>
        LET b == bufs[alast.slot] IN
        /\ b.alloc = Max(alast.size, DefaultMin)
        /\ b.length = alast.size
        /\ Len(ViewCells(heap, b.array)) = alast.size

(***************************************************************************)
(* C5 amended: create(dtype, length) allocates 16 elements when length is  *)
(* 0 and exactly length elements otherwise; the logical length is length   *)
(* and the view is the first length elements of that storage.              *)
(***************************************************************************)
C5_CreateCapacity ==
    alast.op = "create" =>
        LET b == bufs[alast.slot] IN
        /\ b.alloc = (IF alast.size = 0 THEN DefaultMin ELSE alast.size)
        /\ Len(heap[b._data].cells) = b.alloc
        /\ b.length = alast.size
        /\ b.array = [h |-> b._data, n |-> alast.size]
        /\ Len(ViewCells(heap, b.array)) = alast.size

\* DeviceArray(dtype, 1): one element allocated, not 16.
C5_Witness ==
    /\ alast.op = "create"
    /\ alast.size = 1
    /\ bufs[alast.slot].alloc = 1
    /\ bufs[alast.slot].length = 1

(***************************************************************************)
(* C6 as stated: resize or reserve with a negative size does not return    *)
(* normally and leaves the buffer's length, capacity and view unchanged.   *)
(***************************************************************************)
C6_NegativeSizeFails ==
    [][(alast'.op \in {"resize", "reserve"} /\ alast'.size < 0)
        => (alast'.out = "raised" /\ bufs' = bufs /\ heap' = heap)]_vars

(***************************************************************************)
(* C8: every buffer reached by create, reserve, resize, fill and copy with *)
(* non-negative sizes has capacity >= length, the capacity being the       *)
(* number of elements of its storage.                                      *)
(***************************************************************************)
C8_CapacityGeLength ==
    \A s \in DOMAIN bufs :
        /\ bufs[s].alloc >= bufs[s].length
        /\ bufs[s].alloc = Len(heap[bufs[s]._data].cells)

\* A resize that had to replace the storage: length 2 = capacity 2.
C8_Witness ==
    /\ alast.op = "resize"
    /\ alast.realloc
    /\ bufs[alast.slot].length = 2
    /\ bufs[alast.slot].alloc = 2

(***************************************************************************)
(* C9: resize(b, n1) followed by resize(b, n2) with n1 <= n2 gives a view  *)
(* of n2 elements whose first n1 elements are those of the view before the *)
(* second resize, whether or not the second resize replaces the storage.   *)
(***************************************************************************)
C9_GrowKeepsValues ==
    [][(/\ alast.op = "resize"
        /\ alast'.op = "resize"
        /\ alast'.slot = alast.slot
        /\ 0 <= alast.size
        /\ alast.size <= alast'.size)
        => LET s == alast.slot
               old == ViewCells(heap, bufs[s].array)
               new == ViewCells(heap', bufs'[s].array) IN
           /\ Len(old) = alast.size
           /\ Len(new) = alast'.size
           /\ bufs'[s].array.h = bufs'[s]._data
           /\ \A i \in 1..alast.size : new[i] = old[i]]_vars

\* resize(b, 1); resize(b, 2) on a buffer of capacity 1 holding <<1>>: the
\* storage is replaced, the new element holds 0 and the old one is kept.
C9_Witness ==
    /\ alast.op = "resize"
    /\ alast.after = 1
    /\ alast.size = 2
    /\ alast.realloc
    /\ ViewCells(heap, bufs[alast.slot].array) = <<1, 0>>

(***************************************************************************)
(* C1: two get_kernel requests with the same kernel name and the same      *)
(* parameter set get the same kernel object, and at most one of them       *)
(* compiled, whatever the order of the keyword parameters.                 *)
(***************************************************************************)
C1_SameSetSameKernel ==
    \A r1, r2 \in returned :
        (r1.name = r2.name /\ ParamSet(r1.kw) = ParamSet(r2.kw))
            => (r1.knl = r2.knl /\ (r1 # r2 => ~(r1.compiled /\ r2.compiled)))

(***************************************************************************)
(* C10: two calls with the same name and the same parameters, written the  *)
(* same way, get the identical kernel object and only one of them          *)
(* compiles; a call with the same name and a different value of a          *)
(* parameter gets a distinct kernel object, compiled for it.               *)
(***************************************************************************)
SameKeywords(kw1, kw2) ==
    /\ Len(kw1) = Len(kw2)
    /\ \A i \in 1..Len(kw1) : kw1[i][1] = kw2[i][1]

C10_SameCallSameKernel ==
    /\ \A r1, r2 \in returned :
        (r1.name = r2.name /\ r1.kw = r2.kw)
            => (r1.knl = r2.knl /\ (r1 # r2 => ~(r1.compiled /\ r2.compiled)))
    /\ \A r1, r2 \in returned :
        (r1.name = r2.name /\ SameKeywords(r1.kw, r2.kw) /\ r1.kw # r2.kw)
            => r1.knl # r2.knl
    /\ \A r \in returned : \E c \in returned :
        c.compiled /\ c.knl = r.knl /\ c.name = r.name
            /\ ParamSet(c.kw) = ParamSet(r.kw)
    /\ klast.out = "hit" => ncompiled < ncalls

\* get_kernel("foo", a=1, b=2) twice, then get_kernel("foo", a=1, b=3).
C10_Witness ==
    LET kw2 == <<(<<"a", 1>>), <<"b", 2>>>>
        kw3 == <<(<<"a", 1>>), <<"b", 3>>>> IN
    /\ [name |-> "foo", kw |-> kw2, knl |-> 1, compiled |-> TRUE] \in returned
    /\ [name |-> "foo", kw |-> kw2, knl |-> 1, compiled |-> FALSE] \in returned
    /\ [name |-> "foo", kw |-> kw3, knl |-> 2, compiled |-> TRUE] \in returned
    /\ ncompiled = 2

\* The view of the managed property prop in the helper d over the memory hp.
PropView(hp, d, prop) == ViewCells(hp, d.attr[prop])

(***************************************************************************)
(* C2 as stated: after a resize(n) that returns, on a helper reached by    *)
(* construction, add_prop and resize, every managed property has a view of *)
(* exactly n elements whose first min(old_n, n) values are those it had    *)
(* before, and every managed property whose storage was smaller than n     *)
(* has new storage of n elements.                                          *)
(***************************************************************************)
C2_ResizeAllViews ==
    [][(hlast'.op = "resize" /\ hlast'.out = "returned")
        => \A i \in 1..Len(dh._props) :
            LET prop == dh._props[i]
                n == hlast'.size
                old == PropView(heap, dh, prop)
                new == PropView(heap', dh', prop) IN
            /\ Len(new) = n
            /\ \A k \in 1..Min(Len(old), Len(new)) : new[k] = old[k]
            /\ Len(heap[dh._data[prop]].cells) < n
                => Len(heap'[dh'._data[prop]].cells) = n]_vars

(***************************************************************************)
(* C3 as stated: constructing a helper succeeds, also over a particle      *)
(* array that has no properties (only constants or nothing at all), and    *)
(* sets the shared size to the common length of the properties.            *)
(***************************************************************************)
C3_InitAllocIsLength ==
    hlast.op = "init" =>
        /\ hlast.out = "returned"
        /\ \A p \in DOMAIN pa.properties :
              dh._alloc = pa.properties[p].length

OnHost(name) == get_prop_or_const(pa, name).ctype # "None"

C11_FailureLeavesCache ==
    /\ [](klast.after = "raised" => klast.out \in {"built", "raised"})
    /\ [][klast'.out = "raised"
            => /\ cache' = cache
               /\ CacheKey(kwargsOrdered, klast'.name, klast'.kw)
                    \notin DOMAIN cache']_vars

\* A build that raised with another kernel already cached, followed by the
\* same call building successfully.
C11_Witness ==
    /\ klast.after = "raised"
    /\ klast.out = "built"
    /\ Cardinality(DOMAIN cache) = 2
    /\ ncalls = 3

(***************************************************************************)
(* C17: over any sequence of get_kernel calls a key in the cache stays in  *)
(* the cache with the same kernel object, and the number of compilations   *)
(* equals the number of cache entries.                                     *)
(***************************************************************************)
C17_CacheOnlyGrows ==
    /\ [](ncompiled = Cardinality(DOMAIN cache))
    /\ [][\A k \in DOMAIN cache :
            k \in DOMAIN cache' /\ cache'[k] = cache[k]]_vars

\* Two entries compiled, then a hit on one of them.
C17_Witness ==
    /\ Cardinality(DOMAIN cache) = 2
    /\ ncompiled = 2
    /\ klast.out = "hit"
    /\ ncalls = 3

\* What a buffer is, whatever its handles are called: its fields, the
\* elements of its storage and the elements seen through its view.
Content(hp, b) ==
    [dtype |-> b.dtype, length |-> b.length, alloc |-> b.alloc,
     cells |-> hp[b._data].cells, view |-> ViewCells(hp, b.array)]

(***************************************************************************)
(* C12: c = copy(b) has the dtype, the length and the values of b in       *)
(* storage of its own and leaves b as it was; a later fill, reserve or     *)
(* resize of c leaves b's length, capacity and values unchanged, and a     *)
(* later fill, reserve or resize of b leaves c unchanged.                  *)
(***************************************************************************)
C12_CopyIndependent ==
    [][/\ alast'.op = "copy"
            => /\ bufs'["c"].dtype = bufs'["b"].dtype
               /\ bufs'["c"].length = bufs'["b"].length
               /\ ViewCells(heap', bufs'["c"].array)
                    = ViewCells(heap', bufs'["b"].array)
               /\ bufs'["c"]._data # bufs'["b"]._data
               /\ bufs'["c"].array.h = bufs'["c"]._data
               /\ Content(heap', bufs'["b"]) = Content(heap, bufs["b"])
       /\ (/\ alast'.op \in {"fill", "reserve", "resize"}
           /\ alast'.slot = "c")
            => Content(heap', bufs'["b"]) = Content(heap, bufs["b"])
       /\ (/\ alast'.op \in {"fill", "reserve", "resize"}
           /\ alast'.slot = "b"
           /\ "c" \in DOMAIN bufs)
            => Content(heap', bufs'["c"]) = Content(heap, bufs["c"])]_vars

\* c = copy(b) of a b holding <<0>>, then fill(c, 1): b still holds <<0>>.
C12_Witness ==
    /\ alast.op = "fill"
    /\ alast.slot = "c"
    /\ ViewCells(heap, bufs["b"].array) = <<0>>
    /\ ViewCells(heap, bufs["c"].array) = <<1>>

(***************************************************************************)
(* C16: reserve(b, n) with n <= capacity changes nothing; with             *)
(* n > capacity the capacity becomes exactly n, the storage has n elements *)
(* of which the first capacity ones are the old ones, the length and the   *)
(* values seen through the view are unchanged and the view is on the new   *)
(* storage.                                                                *)
(***************************************************************************)
C16_ReserveGrowsOnly ==
    [][alast'.op = "reserve"
        => LET s == alast'.slot
               n == alast'.size
               old == bufs[s]
               new == bufs'[s] IN
           IF n <= old.alloc
           THEN /\ Content(heap', new) = Content(heap, old)
                /\ ~alast'.realloc
           ELSE /\ new.alloc = n
                /\ Len(heap'[new._data].cells) = n
                /\ \A i \in 1..old.alloc :
                      heap'[new._data].cells[i] = heap[old._data].cells[i]
                /\ new.length = old.length
                /\ new.dtype = old.dtype
                /\ ViewCells(heap', new.array) = ViewCells(heap, old.array)
                /\ new.array = [h |-> new._data, n |-> old.length]
                /\ alast'.realloc]_vars

\* reserve(b, 3) on a buffer of capacity and length 2 that holds <<1, 1>>.
C16_Witness ==
    /\ alast.op = "reserve"
    /\ alast.size = 3
    /\ alast.realloc
    /\ bufs[alast.slot].alloc = 3
    /\ bufs[alast.slot].length = 2
    /\ ViewCells(heap, bufs[alast.slot].array) = <<1, 1>>

(***************************************************************************)
(* C19 as stated: every buffer reached by create, reserve, resize, fill    *)
(* and copy with non-negative sizes has a capacity of at least 1, and its  *)
(* storage has at least one element.                                       *)
(***************************************************************************)
C19_CapacityPositive ==
    \A s \in DOMAIN bufs :
        /\ bufs[s].alloc >= 1
        /\ Len(heap[bufs[s]._data].cells) >= 1

\* The names with a device buffer that resize does not manage.
Unmanaged(d) == {k \in DOMAIN d._data : ~SeqHas(d._props, k)}

(***************************************************************************)
(* C13: resize(new_size), growing or shrinking, leaves every registered    *)
(* name that is not a managed property (the constants) as it was: the      *)
(* same storage contents, the same view length and the same values.        *)
(***************************************************************************)
C13_ConstantsUntouched ==
    [][hlast'.op = "resize"
        => \A k \in Unmanaged(dh) :
            /\ k \in Unmanaged(dh')
            /\ heap'[dh'._data[k]] = heap[dh._data[k]]
            /\ dh'.attr[k].n = dh.attr[k].n
            /\ PropView(heap', dh', k) = PropView(heap, dh, k)
            /\ (dh'.attr[k].h = dh'._data[k]) = (dh.attr[k].h = dh._data[k])]_vars

\* resize(3) of a helper with the property x and the constant m: x has three
\* elements, m still has its one.
C13_Witness ==
    /\ hlast.op = "resize"
    /\ hlast.size = 3
    /\ hlast.out = "returned"
    /\ Has(dh._data, "x") /\ dh.attr["x"].n = 3
    /\ "m" \in Unmanaged(dh)
    /\ PropView(heap, dh, "m") = <<30>>

\* The values a host array of C type ctype holds after its values vals went
\* to a device of the helper's precision and came back.
RoundTrip(ctype, dtype, vals) ==
    IF ctype \in {"float", "double"} /\ dtype = "float32"
    THEN [i \in 1..Len(vals) |-> Cast32(vals[i])]
    ELSE vals

\* The host arrays of p after the names in names made the round trip.
AfterRoundTrip(p, dtype, names) ==
    LET Trip(f) == [k \in DOMAIN f |->
                       IF SeqHas(names, k)
                       THEN [f[k] EXCEPT !.vals =
                                RoundTrip(f[k].ctype, dtype, f[k].vals)]
                       ELSE f[k]]
    IN [properties |-> Trip(p.properties), constants |-> Trip(p.constants)]

(***************************************************************************)
(* C14: push does not change the host; a pull(names) that directly         *)
(* follows a push(names) that returned, names being given or defaulting to *)
(* all registered names, returns and leaves every host array with the      *)
(* values it had before the push, up to the cast to the device's           *)
(* precision for the float arrays among names; the others are untouched.   *)
(***************************************************************************)
C14_PushPullRoundTrip ==
    [][/\ hlast'.op = "push" => pa' = pa
       /\ (hlast.op = "push" /\ hlast.out = "returned"
            /\ hlast'.op = "pull" /\ hlast'.names = hlast.names)
            => /\ hlast'.out = "returned"
               /\ hlast'.after = "push"
               /\ pa' = AfterRoundTrip(pa, dh._dtype, Args(HSt, hlast.names))
               /\ <<heap', dh'>> = <<heap, dh>>]_vars

\* push() then pull() over the property x, the counter y and the constant
\* m on a single-precision device: x, a double that held 11, now holds 10;
\* y and m hold what they held.
C14_Witness ==
    /\ hlast.op = "pull"
    /\ hlast.names = <<>>
    /\ hlast.after = "push"
    /\ hlast.out = "returned"
    /\ dh._dtype = "float32"
    /\ dh.keys = <<"x", "y", "m">>
    /\ pa.properties["x"].vals = <<10>>
    /\ pa.properties["y"].vals = <<21>>
    /\ pa.constants["m"].vals = <<30>>

\* The number of times name occurs in the list seq.
Count(seq, name) == Cardinality({i \in 1..Len(seq) : seq[i] = name})

(***************************************************************************)
(* C15 as stated: remove_prop(name) returns normally; afterwards name is   *)
(* in neither the name-to-buffer mapping nor the managed properties, and   *)
(* every other name has the buffer and the managed status it had; for a    *)
(* name that was not known nothing changes.                                *)
(***************************************************************************)
C15_RemoveDeregisters ==
    [][hlast'.op = "remove_prop"
        => LET name == hlast'.names[1] IN
           /\ hlast'.out = "returned"
           /\ ~Has(dh'._data, name)
           /\ ~SeqHas(dh'._props, name)
           /\ \A k \in HostNames \ {name} :
                /\ Has(dh'._data, k) = Has(dh._data, k)
                /\ Has(dh._data, k)
                    => heap'[dh'._data[k]] = heap[dh._data[k]]
                /\ Count(dh'._props, k) = Count(dh._props, k)
           /\ (~Has(dh._data, name) /\ ~SeqHas(dh._props, name))
                => <<heap', dh', pa'>> = <<heap, dh, pa>>]_vars

(***************************************************************************)
(* C18 as stated: after any sequence of construction, add_prop,            *)
(* remove_prop and resize the managed-property list holds each name at     *)
(* most once, every name in it has a buffer in the name-to-buffer mapping, *)
(* and no resize fails.                                                    *)
(***************************************************************************)
C18_PropsConsistent ==
    dh.state = "ready" =>
        /\ \A k \in HostNames : Count(dh._props, k) <= 1
        /\ \A i \in 1..Len(dh._props) : Has(dh._data, dh._props[i])
        /\ hlast.op = "resize" => hlast.out = "returned"

(***************************************************************************)
(* C20 as stated: get_context and get_queue return the handle most         *)
(* recently set or, if none was set, the default handle; a default handle  *)
(* is created at most once, and never when the handle was set before its   *)
(* first use; the queue that get_queue returns is bound to the context     *)
(* that get_context returns.                                               *)
(***************************************************************************)
C20_HandlesConsistent ==
    /\ glast.op = "get_context"
        => glast.ctx_ret = (IF glast.ctx_set # None THEN glast.ctx_set
                            ELSE DefaultCtx)
    /\ glast.op = "get_queue"
        => /\ glast.queue_set # NoQueue => glast.queue_ret = glast.queue_set
           /\ glast.queue_set = NoQueue => glast.queue_ret.q = "default_queue"
           /\ glast.queue_ret.ctx = get_context(g_ctx)
    /\ glast.ctx_made <= 1
    /\ glast.queue_made <= 1
    /\ glast.ctx_first = "set" => glast.ctx_made = 0
    /\ glast.queue_first = "set" => glast.queue_made = 0

====
